---- MODULE Spec2Model ----
(***************************************************************************)
(* VEKOS boot path: kernel_main and the panic handler of src/main.rs,      *)
(* together with the collaborators they drive: the boot-verification       *)
(* driver (BOOT_VERIFICATION), the verification registry                   *)
(* (VERIFICATION_REGISTRY) and the proof storage lock (PROOF_STORAGE).     *)
(* The driver and the registry live in other modules of the kernel         *)
(* (boot_verification, verification); they are modelled from sections 3,   *)
(* 4.4, 4.6 and 5 of the specification.  One CPU: an interrupt handler     *)
(* runs to completion on top of the code it interrupted.                   *)
(***************************************************************************)
EXTENDS Integers, Sequences, FiniteSets, TLC

VARIABLES
    pc,               \* position of kernel_main
    pp,               \* position of the panic handler ("none": no panic)
    cur_stage,        \* BOOT_VERIFICATION.current_stage
    tip,              \* the driver's chain tip (state hash)
    drv_next_op,      \* op_id the driver gives its next proof
    stage_timestamps, \* BOOT_VERIFICATION.stage_timestamps[stage].is_some()
    emitted,          \* Boot proofs the driver has produced, in order
    errors,           \* the driver's error ring
    error_count,      \* BOOT_VERIFICATION.error_count
    vr,               \* registry state: next_op_id, chains, index
    held,             \* per execution context: locks held, in acquisition order
    if_flag,          \* CPU interrupt flag
    vr_saved_if,      \* interrupt flag saved by the registry guard
    rphase,           \* per context: phase of its register_proof call
    rproof,           \* per context: the proof it submits
    rresult,          \* per context: result of its last register_proof call
    ooo_rejected,     \* op_ids that were rejected OutOfOrder so far
    io_failed,        \* a storage append has failed
    irq_pc,           \* interrupt handler: "idle", "submit"
    irq_count,        \* interrupts delivered so far
    verify_failed,    \* stage whose verify_stage_vmk returned Err ("none")
    gdt_loaded,       \* gdt::init() has returned
    idt_loaded,       \* interrupts::init_idt() has returned
    heap_init,        \* init_heap: "none" (not called), "ok", "failed"
    mm_some,          \* MEMORY_MANAGER holds Some
    sched_some,       \* SCHEDULER holds Some
    init_procs,       \* processes added to the scheduler
    fb_some,          \* FRAMEBUFFER holds Some
    vbe_some,         \* VBE_DRIVER holds Some
    dev_failed,       \* optional devices whose initialisation failed
    shell,            \* "none", "running", "failed", "exited"
    dumped,           \* error lines the panic handler printed
    slots_read,       \* indices i of the ring slots errors[i] the handler read
    cleaned,          \* fs::cleanup() was called
    last_schedule,    \* kernel_main's local last_schedule
    current_ticks,    \* the value SYSTEM_TIME.ticks() returned in the last iteration
    sched_ticks       \* the tick values at which scheduler.schedule() was called

drv   == <<cur_stage, tip, drv_next_op, stage_timestamps, emitted, errors, error_count>>
regs  == <<vr, rphase, rproof, rresult, ooo_rejected, io_failed>>
cpu   == <<if_flag, vr_saved_if>>
irqv  == <<irq_pc, irq_count>>
glob  == <<mm_some, sched_some, init_procs, fb_some, vbe_some, dev_failed, shell>>
panv  == <<dumped, slots_read, cleaned>>
initv == <<gdt_loaded, idt_loaded, heap_init>>
loopv == <<last_schedule, current_ticks, sched_ticks>>
vars  == <<pc, pp, drv, regs, held, cpu, irqv, verify_failed, initv, glob, panv, loopv>>

(***************************************************************************)
(* Bounds of the model and constants of the program.                       *)
(***************************************************************************)
MaxIrq == 3
MaxOpId == 3
MaxErrorCount == 34
MaxTick == 21
SCHEDULE_INTERVAL == 10
MAX_BOOT_ERRORS == 32

Ctx == {"main", "irq"}

BOOT_VERIFICATION == "BOOT_VERIFICATION"
VERIFICATION_REGISTRY == "VERIFICATION_REGISTRY"
PROOF_STORAGE == "PROOF_STORAGE"
SCHEDULER == "SCHEDULER"
MEMORY_MANAGER == "MEMORY_MANAGER"

StageOrder == <<"Start", "GDTLoaded", "IDTLoaded", "MemoryInitialized",
                "HeapInitialized", "SchedulerReady", "FilesystemReady", "Complete">>

BootStage == {StageOrder[i] : i \in 1..Len(StageOrder)}

Subsystem == {"Boot", "Memory", "Filesystem", "Process"}

Range(s) == {s[i] : i \in 1..Len(s)}

NoProof == [op_id |-> 0, subsystem |-> "none", kind |-> "none",
            prev_state |-> "zero", new_state |-> "zero", signature |-> <<"none">>]

(***************************************************************************)
(* Hashes.  H is collision resistant: distinct inputs give distinct        *)
(* values, so a hash is represented by the input it was computed from.     *)
(***************************************************************************)
HashZero == "zero"

StageHash(stage) == stage

ProcessHash(op_id) == <<"sched1", "sched2", "sched3", "sched4", "sched5", "sched6">>[op_id]

Signature(subsystem, op_id, kind, prev_state, new_state) ==
    <<"sig", subsystem, op_id, kind, prev_state, new_state>>

ForgedSignature(subsystem, op_id, kind, prev_state, new_state) ==
    <<"forged", subsystem, op_id, kind, prev_state, new_state>>

SignatureOf(p) == Signature(p.subsystem, p.op_id, p.kind, p.prev_state, p.new_state)

(***************************************************************************)
(* Locks.                                                                  *)
(***************************************************************************)
Holds(c, l) == l \in Range(held[c])

LockFree(l) == \A c \in Ctx : ~Holds(c, l)

Acquire(c, l) == held' = [held EXCEPT ![c] = Append(@, l)]

Release(c, l) == held' = [held EXCEPT ![c] = SelectSeq(@, LAMBDA x : x # l)]

\* The registry mutex as a plain spin lock: the interrupt flag is left alone.
PlainSpinLock(flag) == flag

\* The registry mutex is irq-safe: taking it masks interrupts.
IrqSafeLock(flag) == FALSE

(***************************************************************************)
(* Who runs.  kernel_main runs when no interrupt handler is active and it  *)
(* has not panicked; the panic handler runs in kernel_main's context.      *)
(***************************************************************************)
MainRuns == irq_pc = "idle" /\ pp = "none"

HandlerRuns == irq_pc = "idle" /\ pp # "none"

Running(c) == IF c = "main" THEN MainRuns ELSE irq_pc = "submit"

(***************************************************************************)
(* Boot-verification driver (specification 4.6).                           *)
(***************************************************************************)
BootProof(stage) ==
    [op_id |-> drv_next_op, subsystem |-> "Boot", kind |-> stage,
     prev_state |-> tip, new_state |-> StageHash(stage),
     signature |-> Signature("Boot", drv_next_op, stage, tip, StageHash(stage))]

\* start_boot(): the driver is at Start with an empty chain.
start_boot ==
    /\ cur_stage' = "Start"
    /\ tip' = HashZero
    /\ drv_next_op' = 1
    /\ stage_timestamps' = [s \in BootStage |-> s = "Start"]
    /\ emitted' = <<>>
    /\ UNCHANGED <<errors, error_count>>

\* verify_stage_vmk(stage) returning Ok(proof): the transition to `stage`
\* emits BootProof(stage) and moves the chain tip to its new_state.
verify_stage_vmk(stage) ==
    /\ cur_stage' = stage
    /\ tip' = StageHash(stage)
    /\ drv_next_op' = drv_next_op + 1
    /\ stage_timestamps' = [stage_timestamps EXCEPT ![stage] = TRUE]
    /\ emitted' = Append(emitted, BootProof(stage))
    /\ UNCHANGED <<errors, error_count>>

\* log_error(msg): one more entry in the bounded error ring.
log_error(msg) ==
    /\ errors' = IF Len(errors) < MAX_BOOT_ERRORS THEN Append(errors, msg) ELSE errors
    /\ error_count' = error_count + 1
    /\ UNCHANGED <<cur_stage, tip, drv_next_op, stage_timestamps, emitted>>

(***************************************************************************)
(* Verification registry (specification 4.4).                              *)
(***************************************************************************)
EmptyChain == [count |-> 0, last_new_state |-> HashZero]

EmptyRegistry == [next_op_id |-> 1, chains |-> [s \in Subsystem |-> EmptyChain], index |-> <<>>]

latest_state(r, subsystem) == r.chains[subsystem].last_new_state

\* The preconditions without the op_id check.
ValidateNoOrder(r, p) ==
    IF p.signature # SignatureOf(p) THEN "InvalidSignature"
    ELSE IF r.chains[p.subsystem].count > 0
            /\ p.prev_state # r.chains[p.subsystem].last_new_state THEN "StateMismatch"
    ELSE "Ok"

\* Preconditions 1 to 3 of register_proof, checked in order.
Validate(r, p) ==
    IF p.signature # SignatureOf(p) THEN "InvalidSignature"
    ELSE IF p.op_id # r.next_op_id THEN "OutOfOrder"
    ELSE IF r.chains[p.subsystem].count > 0
            /\ p.prev_state # r.chains[p.subsystem].last_new_state THEN "StateMismatch"
    ELSE "Ok"

Commit(r, p) ==
    [next_op_id |-> r.next_op_id + 1,
     chains |-> [r.chains EXCEPT ![p.subsystem] =
                    [count |-> @.count + 1, last_new_state |-> p.new_state]],
     index |-> Append(r.index, p)]

\* register_proof that links the proof before the durable append is known to
\* have succeeded.
register_proof_dirty(r, p, io_ok) ==
    IF Validate(r, p) # "Ok" THEN [vr |-> r, result |-> Validate(r, p)]
    ELSE IF ~io_ok THEN [vr |-> Commit(r, p), result |-> "StorageFailed"]
    ELSE [vr |-> Commit(r, p), result |-> "Ok"]

\* register_proof(p): io_ok is the outcome of the storage append.
register_proof(r, p, io_ok) ==
    IF Validate(r, p) # "Ok" THEN [vr |-> r, result |-> Validate(r, p)]
    ELSE IF ~io_ok THEN [vr |-> r, result |-> "StorageFailed"]
    ELSE [vr |-> Commit(r, p), result |-> "Ok"]

BootProofsIn(r) == SelectSeq(r.index, LAMBDA p : p.subsystem = "Boot")

(***************************************************************************)
(* Merkle tree of the registry (specification 3 and 4.3).  The leaves are  *)
(* the signatures of the accepted proofs in insertion order; an internal   *)
(* node is H(left || right); a node without a sibling at its level is      *)
(* promoted to the next level unchanged.                                   *)
(***************************************************************************)
Combine(left, right) == <<"H", left, right>>

Leaves(r) == [i \in 1..Len(r.index) |-> r.index[i].signature]

\* The level above `level`: the pairs hashed, an unpaired last node promoted.
NextLevel(level) ==
    [k \in 1..((Len(level) + 1) \div 2) |->
        IF 2 * k <= Len(level) THEN Combine(level[2 * k - 1], level[2 * k])
        ELSE level[2 * k - 1]]

RECURSIVE RootOf(_)
RootOf(level) ==
    IF Len(level) = 0 THEN HashZero
    ELSE IF Len(level) = 1 THEN level[1]
    ELSE RootOf(NextLevel(level))

\* root(): empty tree H::zero(), single leaf the leaf itself.
MerkleRoot(r) == RootOf(Leaves(r))

\* An unpaired node contributes itself as its sibling (duplication).
SiblingDuplicated(level, idx) ==
    IF idx % 2 = 0 THEN <<[sibling |-> level[idx - 1], left |-> TRUE]>>
    ELSE IF idx + 1 <= Len(level) THEN <<[sibling |-> level[idx + 1], left |-> FALSE]>>
    ELSE <<[sibling |-> level[idx], left |-> FALSE]>>

\* The proof entry of node idx at one level: its sibling and the side the
\* sibling is on; no entry where the node is unpaired and promoted.
SiblingAt(level, idx) ==
    IF idx % 2 = 0 THEN <<[sibling |-> level[idx - 1], left |-> TRUE]>>
    ELSE IF idx + 1 <= Len(level) THEN <<[sibling |-> level[idx + 1], left |-> FALSE]>>
    ELSE <<>>

RECURSIVE ProveFrom(_, _)
ProveFrom(level, idx) ==
    IF Len(level) <= 1 THEN <<>>
    ELSE SiblingAt(level, idx) \o ProveFrom(NextLevel(level), (idx + 1) \div 2)

\* prove(index): leaf indices count from 1 here.
prove(r, index) == ProveFrom(Leaves(r), index)

\* inclusion_proof(op_id): the index maps op_id to its leaf; op_ids are dense
\* from 1, so the leaf of op_id is leaf number op_id.
inclusion_proof(r, op_id) ==
    IF op_id \in 1..Len(r.index) THEN [found |-> TRUE, path |-> prove(r, op_id)]
    ELSE [found |-> FALSE, path |-> <<>>]

RECURSIVE Fold(_, _)
Fold(node, path) ==
    IF path = <<>> THEN node
    ELSE Fold(IF path[1].left THEN Combine(path[1].sibling, node)
              ELSE Combine(node, path[1].sibling),
              Tail(path))

\* verify(leaf, index, proof, root): folds the siblings following the bits.
verify(leaf, path, root) == Fold(leaf, path) = root

(***************************************************************************)
(* Initial state: the kernel image as the boot loader enters it, with      *)
(* interrupts disabled and every global in its static initialiser.         *)
(***************************************************************************)
StaticInit ==
    /\ cur_stage = "Start"
    /\ tip = HashZero
    /\ drv_next_op = 1
    /\ stage_timestamps = [s \in BootStage |-> FALSE]
    /\ emitted = <<>>
    /\ vr = EmptyRegistry
    /\ held = [c \in Ctx |-> <<>>]
    /\ if_flag = FALSE
    /\ vr_saved_if = FALSE
    /\ rphase = [c \in Ctx |-> "idle"]
    /\ rproof = [c \in Ctx |-> NoProof]
    /\ rresult = [c \in Ctx |-> "none"]
    /\ ooo_rejected = {}
    /\ io_failed = FALSE
    /\ irq_pc = "idle"
    /\ irq_count = 0
    /\ verify_failed = "none"
    /\ gdt_loaded = FALSE
    /\ idt_loaded = FALSE
    /\ heap_init = "none"
    /\ mm_some = FALSE
    /\ sched_some = FALSE
    /\ init_procs = 0
    /\ fb_some = FALSE
    /\ vbe_some = FALSE
    /\ dev_failed = {}
    /\ shell = "none"
    /\ dumped = <<>>
    /\ slots_read = {}
    /\ cleaned = FALSE
    /\ last_schedule = 0
    /\ current_ticks = 0
    /\ sched_ticks = <<>>

Init ==
    /\ pc = "splash"
    /\ pp = "none"
    /\ errors = <<>>
    /\ error_count = 0
    /\ StaticInit

(***************************************************************************)
(* One register_proof call of context c:                                   *)
(*   VERIFICATION_REGISTRY.lock()   RegLock                                *)
(*   preconditions 1..3             RegCheck  (then PROOF_STORAGE.lock())  *)
(*   storage append, commit         RegAppend (PROOF_STORAGE released)     *)
(*   guard dropped                  RegUnlock                              *)
(***************************************************************************)
BeginRegister(c, p) ==
    /\ rphase' = [rphase EXCEPT ![c] = "call"]
    /\ rproof' = [rproof EXCEPT ![c] = p]
    /\ rresult' = [rresult EXCEPT ![c] = "none"]
    /\ UNCHANGED <<vr, ooo_rejected, io_failed>>

RegLock(c) ==
    /\ Running(c)
    /\ rphase[c] = "call"
    /\ LockFree(VERIFICATION_REGISTRY)
    /\ Acquire(c, VERIFICATION_REGISTRY)
    /\ vr_saved_if' = if_flag
    /\ if_flag' = IrqSafeLock(if_flag)
    /\ rphase' = [rphase EXCEPT ![c] = "locked"]
    /\ UNCHANGED <<pc, pp, drv, vr, rproof, rresult, ooo_rejected, io_failed, irqv, verify_failed, initv, glob, panv, loopv>>

RegCheck(c) ==
    /\ Running(c)
    /\ rphase[c] = "locked"
    /\ IF Validate(vr, rproof[c]) # "Ok"
       THEN /\ rresult' = [rresult EXCEPT ![c] = Validate(vr, rproof[c])]
            /\ ooo_rejected' = IF Validate(vr, rproof[c]) = "OutOfOrder"
                               THEN ooo_rejected \cup {rproof[c].op_id}
                               ELSE ooo_rejected
            /\ rphase' = [rphase EXCEPT ![c] = "unlock"]
            /\ UNCHANGED <<held, io_failed>>
       ELSE /\ LockFree(PROOF_STORAGE)
            /\ Acquire(c, PROOF_STORAGE)
            /\ rphase' = [rphase EXCEPT ![c] = "append"]
            /\ UNCHANGED <<rresult, ooo_rejected, io_failed>>
    /\ UNCHANGED <<pc, pp, drv, vr, rproof, cpu, irqv, verify_failed, initv, glob, panv, loopv>>

RegAppend(c) ==
    /\ Running(c)
    /\ rphase[c] = "append"
    /\ \E io_ok \in BOOLEAN :
          /\ vr' = register_proof(vr, rproof[c], io_ok).vr
          /\ rresult' = [rresult EXCEPT ![c] = register_proof(vr, rproof[c], io_ok).result]
          /\ ooo_rejected' =
                IF register_proof(vr, rproof[c], io_ok).result = "OutOfOrder"
                THEN ooo_rejected \cup {rproof[c].op_id}
                ELSE ooo_rejected
          /\ io_failed' = (io_failed \/ ~io_ok)
    /\ Release(c, PROOF_STORAGE)
    /\ rphase' = [rphase EXCEPT ![c] = "unlock"]
    /\ UNCHANGED <<pc, pp, drv, rproof, cpu, irqv, verify_failed, initv, glob, panv, loopv>>

RegUnlock(c) ==
    /\ Running(c)
    /\ rphase[c] = "unlock"
    /\ Release(c, VERIFICATION_REGISTRY)
    /\ if_flag' = vr_saved_if
    /\ rphase' = [rphase EXCEPT ![c] = "done"]
    /\ UNCHANGED <<pc, pp, drv, vr, rproof, rresult, ooo_rejected, io_failed, vr_saved_if, irqv,
                   verify_failed, initv, glob, panv, loopv>>

(***************************************************************************)
(* kernel_main.                                                            *)
(***************************************************************************)
PanicNow == pc' = "panic" /\ pp' = "print_stage"

\* A step of kernel_main with no effect on the modelled state but its position.
Step(from, to) ==
    /\ MainRuns
    /\ pc = from
    /\ pc' = to
    /\ UNCHANGED <<pp, drv, regs, held, cpu, irqv, verify_failed, initv, glob, panv, loopv>>

\* The Err arm of a verify_stage_vmk match that only reports and goes on.
OnVerifyErrContinue(stage, logs, msg, next) ==
    /\ verify_failed' = stage
    /\ IF logs THEN log_error(msg) ELSE UNCHANGED drv
    /\ pc' = next
    /\ pp' = pp
    /\ UNCHANGED <<regs, held, cpu, irqv, initv, glob, panv, loopv>>

\* The Err arm of a verify_stage_vmk match: (log_error,) panic!.
OnVerifyErr(stage, logs, msg, next) ==
    /\ verify_failed' = stage
    /\ IF logs THEN log_error(msg) ELSE UNCHANGED drv
    /\ PanicNow
    /\ UNCHANGED <<regs, held, cpu, irqv, initv, glob, panv, loopv>>

\* The Ok arm that submits the proof: VERIFICATION_REGISTRY.lock().register_proof(proof).
OnVerifyOkRegister(stage, at) ==
    /\ verify_stage_vmk(stage)
    /\ BeginRegister("main", BootProof(stage))
    /\ pc' = at
    /\ UNCHANGED <<pp, held, cpu, irqv, verify_failed, initv, glob, panv, loopv>>

\* The Ok arm that only prints proof.op_id.
OnVerifyOkPrint(stage, next) ==
    /\ verify_stage_vmk(stage)
    /\ pc' = next
    /\ UNCHANGED <<pp, regs, held, cpu, irqv, verify_failed, initv, glob, panv, loopv>>

\* register_proof has returned; its result is dropped with the statement.
RegisterReturn(at, next) ==
    /\ MainRuns
    /\ pc = at
    /\ rphase["main"] = "done"
    /\ rphase' = [rphase EXCEPT !["main"] = "idle"]
    /\ pc' = next
    /\ UNCHANGED <<pp, drv, vr, rproof, rresult, ooo_rejected, io_failed, held, cpu, irqv,
                   verify_failed, initv, glob, panv, loopv>>

ShowSplash ==
    /\ MainRuns
    /\ pc = "splash"
    /\ \/ pc' = "start_boot" /\ pp' = pp
       \/ PanicNow
    /\ UNCHANGED <<drv, regs, held, cpu, irqv, verify_failed, initv, glob, panv, loopv>>

LockBootVerification ==
    /\ MainRuns
    /\ pc = "start_boot"
    /\ LockFree(BOOT_VERIFICATION)
    /\ Acquire("main", BOOT_VERIFICATION)
    /\ start_boot
    /\ pc' = "gdt_init"
    /\ UNCHANGED <<pp, regs, cpu, irqv, verify_failed, initv, glob, panv, loopv>>

\* gdt::init();
GdtInit ==
    /\ MainRuns
    /\ pc = "gdt_init"
    /\ gdt_loaded' = TRUE
    /\ pc' = "mm_new"
    /\ UNCHANGED <<pp, drv, regs, held, cpu, irqv, verify_failed, idt_loaded, heap_init, glob, panv, loopv>>

MemoryManagerNew == Step("mm_new", "init_heap")

\* init_heap whose Err is reported and ignored: boot goes on without a heap.
InitHeapErrIgnored ==
    /\ MainRuns
    /\ pc = "init_heap"
    /\ \E ok \in BOOLEAN : heap_init' = IF ok THEN "ok" ELSE "failed"
    /\ pc' = "store_mm"
    /\ UNCHANGED <<pp, drv, regs, held, cpu, irqv, verify_failed, gdt_loaded, idt_loaded, glob, panv, loopv>>

\* if let Err(e) = memory_manager.init_heap() { panic!(..) }
InitHeap ==
    /\ MainRuns
    /\ pc = "init_heap"
    /\ \/ heap_init' = "ok" /\ pc' = "store_mm" /\ pp' = pp
       \/ heap_init' = "failed" /\ PanicNow
    /\ UNCHANGED <<drv, regs, held, cpu, irqv, verify_failed, gdt_loaded, idt_loaded, glob, panv, loopv>>

StoreMemoryManager ==
    /\ MainRuns
    /\ pc = "store_mm"
    /\ mm_some' = TRUE
    /\ pc' = "verify_gdt"
    /\ UNCHANGED <<pp, drv, regs, held, cpu, irqv, verify_failed, initv, sched_some, init_procs,
                   fb_some, vbe_some, dev_failed, shell, panv, loopv>>

VerifyGDTLoaded ==
    /\ MainRuns
    /\ pc = "verify_gdt"
    /\ \/ OnVerifyOkRegister("GDTLoaded", "reg_gdt")
       \/ OnVerifyErr("GDTLoaded", FALSE, "", "reg_gdt")

RegisterGDTProof == RegisterReturn("reg_gdt", "hash_init")

HashInit == Step("hash_init", "init_idt")

\* interrupts::init_idt(): from here on interrupts are delivered.
InitIdt ==
    /\ MainRuns
    /\ pc = "init_idt"
    /\ if_flag' = TRUE
    /\ idt_loaded' = TRUE
    /\ pc' = "verify_idt"
    /\ UNCHANGED <<pp, drv, regs, held, vr_saved_if, irqv, verify_failed, gdt_loaded, heap_init, glob, panv, loopv>>

VerifyIDTLoaded ==
    /\ MainRuns
    /\ pc = "verify_idt"
    /\ \/ OnVerifyOkPrint("IDTLoaded", "verify_mem")
       \/ OnVerifyErr("IDTLoaded", TRUE, "IDT verification failed", "verify_mem")

VerifyMemoryInitialized ==
    /\ MainRuns
    /\ pc = "verify_mem"
    /\ \/ OnVerifyOkRegister("MemoryInitialized", "reg_mem")
       \/ OnVerifyErr("MemoryInitialized", FALSE, "", "reg_mem")

RegisterMemoryProof == RegisterReturn("reg_mem", "verify_heap")

VerifyHeapInitialized ==
    /\ MainRuns
    /\ pc = "verify_heap"
    /\ \/ OnVerifyOkPrint("HeapInitialized", "init_sched")
       \/ OnVerifyErr("HeapInitialized", TRUE, "Heap verification failed", "init_sched")

InitScheduler ==
    /\ MainRuns
    /\ pc = "init_sched"
    /\ sched_some' = TRUE
    /\ pc' = "init_sys"
    /\ UNCHANGED <<pp, drv, regs, held, cpu, irqv, verify_failed, initv, mm_some, init_procs,
                   fb_some, vbe_some, dev_failed, shell, panv, loopv>>

InitSyscallsAndTime == Step("init_sys", "fs_init")

FsInit == Step("fs_init", "ps_lock")

\* let proof_storage = PROOF_STORAGE.lock(), with the registry lock taken
\* before the guard is dropped.
LockProofStorageThenRegistry ==
    /\ MainRuns
    /\ pc = "ps_lock"
    /\ LockFree(PROOF_STORAGE)
    /\ LockFree(VERIFICATION_REGISTRY)
    /\ held' = [held EXCEPT !["main"] = Append(Append(@, PROOF_STORAGE), VERIFICATION_REGISTRY)]
    /\ pc' = "ps_drop"
    /\ UNCHANGED <<pp, drv, regs, cpu, irqv, verify_failed, initv, glob, panv, loopv>>

\* let proof_storage = PROOF_STORAGE.lock();
LockProofStorage ==
    /\ MainRuns
    /\ pc = "ps_lock"
    /\ LockFree(PROOF_STORAGE)
    /\ Acquire("main", PROOF_STORAGE)
    /\ pc' = "ps_drop"
    /\ UNCHANGED <<pp, drv, regs, cpu, irqv, verify_failed, initv, glob, panv, loopv>>

\* drop(proof_storage);
DropProofStorage ==
    /\ MainRuns
    /\ pc = "ps_drop"
    /\ Release("main", PROOF_STORAGE)
    /\ pc' = "init_proc"
    /\ UNCHANGED <<pp, drv, regs, cpu, irqv, verify_failed, initv, glob, panv, loopv>>

\* let mut scheduler_lock = SCHEDULER.lock(); let mut mm_lock =
\* MEMORY_MANAGER.lock(); a None in either global panics with the guards held.
LockSchedulerAndManager ==
    /\ MainRuns
    /\ pc = "init_proc"
    /\ LockFree(SCHEDULER)
    /\ IF sched_some
       THEN /\ LockFree(MEMORY_MANAGER)
            /\ held' = [held EXCEPT !["main"] = Append(Append(@, SCHEDULER), MEMORY_MANAGER)]
            /\ IF mm_some THEN pc' = "proc_new" /\ pp' = pp ELSE PanicNow
       ELSE /\ Acquire("main", SCHEDULER)
            /\ PanicNow
    /\ UNCHANGED <<drv, regs, cpu, irqv, verify_failed, initv, glob, panv, loopv>>

\* match Process::new(mm): Ok adds the init process, Err logs and panics.
CreateInitProcess ==
    /\ MainRuns
    /\ pc = "proc_new"
    /\ \/ /\ init_procs' = init_procs + 1
          /\ pc' = "proc_done"
          /\ UNCHANGED <<pp, drv, mm_some, sched_some, fb_some, vbe_some, dev_failed, shell>>
       \/ /\ log_error("Final boot verification failed")
          /\ PanicNow
          /\ UNCHANGED glob
    /\ UNCHANGED <<regs, held, cpu, irqv, verify_failed, initv, panv, loopv>>

\* The block ends with the guards still alive: they are dropped too late.
KeepInitLocks ==
    /\ MainRuns
    /\ pc = "proc_done"
    /\ pc' = "init_fb"
    /\ UNCHANGED <<pp, drv, regs, held, cpu, irqv, verify_failed, initv, glob, panv, loopv>>

\* End of the block: mm_lock and scheduler_lock are dropped.
ReleaseInitLocks ==
    /\ MainRuns
    /\ pc = "proc_done"
    /\ held' = [held EXCEPT !["main"] =
                   SelectSeq(@, LAMBDA x : x \notin {SCHEDULER, MEMORY_MANAGER})]
    /\ pc' = "init_fb"
    /\ UNCHANGED <<pp, drv, regs, cpu, irqv, verify_failed, initv, glob, panv, loopv>>

\* An optional device failed to initialise, and kernel_main panics.
OnDeviceFailurePanics(dev, next) ==
    /\ dev_failed' = dev_failed \cup {dev}
    /\ PanicNow
    /\ UNCHANGED <<drv, regs, held, cpu, irqv, verify_failed, initv, mm_some, sched_some,
                   init_procs, fb_some, vbe_some, shell, panv, loopv>>

\* An optional device failed to initialise: a message is printed, nothing else.
OnDeviceFailure(dev, next) ==
    /\ dev_failed' = dev_failed \cup {dev}
    /\ pc' = next
    /\ UNCHANGED <<pp, drv, regs, held, cpu, irqv, verify_failed, initv, mm_some, sched_some,
                   init_procs, fb_some, vbe_some, shell, panv, loopv>>

\* let mut mm_lock = MEMORY_MANAGER.lock();
LockMemoryManager ==
    /\ MainRuns
    /\ pc = "init_fb"
    /\ LockFree(MEMORY_MANAGER)
    /\ Acquire("main", MEMORY_MANAGER)
    /\ pc' = "fb_new"
    /\ UNCHANGED <<pp, drv, regs, cpu, irqv, verify_failed, initv, glob, panv, loopv>>

\* Framebuffer::new under the guard: Ok stores it in FRAMEBUFFER, Err only prints.
InitFramebuffer ==
    /\ MainRuns
    /\ pc = "fb_new"
    /\ IF mm_some
       THEN \/ /\ fb_some' = TRUE
               /\ pc' = "fb_drop"
               /\ UNCHANGED <<pp, drv, regs, held, cpu, irqv, verify_failed, initv, mm_some,
                              sched_some, init_procs, vbe_some, dev_failed, shell, panv, loopv>>
            \/ OnDeviceFailure("framebuffer", "fb_drop")
       ELSE /\ pc' = "fb_drop"
            /\ UNCHANGED <<pp, drv, regs, held, cpu, irqv, verify_failed, initv, glob, panv, loopv>>

\* drop(mm_lock);
DropMemoryManager ==
    /\ MainRuns
    /\ pc = "fb_drop"
    /\ Release("main", MEMORY_MANAGER)
    /\ pc' = "init_hal"
    /\ UNCHANGED <<pp, drv, regs, cpu, irqv, verify_failed, initv, glob, panv, loopv>>

InitGraphicsHal ==
    /\ MainRuns
    /\ pc = "init_hal"
    /\ \/ /\ pc' = "init_vbe"
          /\ UNCHANGED <<pp, drv, regs, held, cpu, irqv, verify_failed, initv, glob, panv, loopv>>
       \/ OnDeviceFailure("graphics_hal", "init_vbe")

InitVbe ==
    /\ MainRuns
    /\ pc = "init_vbe"
    /\ \/ /\ vbe_some' = TRUE
          /\ pc' = "verify_complete"
          /\ UNCHANGED <<pp, drv, regs, held, cpu, irqv, verify_failed, initv, mm_some,
                         sched_some, init_procs, fb_some, dev_failed, shell, panv, loopv>>
       \/ OnDeviceFailure("vbe", "verify_complete")

VerifyComplete ==
    /\ MainRuns
    /\ pc = "verify_complete"
    /\ \/ OnVerifyOkPrint("Complete", "shell_start")
       \/ OnVerifyErr("Complete", TRUE, "Final boot verification failed", "shell_start")

\* The shell is started and kernel_main goes on without waiting for run().
StartShellDetached ==
    /\ MainRuns
    /\ pc = "shell_start"
    /\ shell' \in {"running", "failed"}
    /\ pc' = "loop"
    /\ UNCHANGED <<pp, drv, regs, held, cpu, irqv, verify_failed, initv, mm_some, sched_some,
                   init_procs, fb_some, vbe_some, dev_failed, panv, loopv>>

\* Shell::new() and shell.init(): either may fail, and then the shell never runs.
StartShell ==
    /\ MainRuns
    /\ pc = "shell_start"
    /\ \/ shell' = "running" /\ pc' = "shell_run"
       \/ shell' = "failed" /\ pc' = "loop"
    /\ UNCHANGED <<pp, drv, regs, held, cpu, irqv, verify_failed, initv, mm_some, sched_some,
                   init_procs, fb_some, vbe_some, dev_failed, panv, loopv>>

\* shell.run() returns (Ok or Err): kernel_main falls into its final loop.
ShellExit ==
    /\ MainRuns
    /\ pc = "shell_run"
    /\ shell' = "exited"
    /\ pc' = "loop"
    /\ UNCHANGED <<pp, drv, regs, held, cpu, irqv, verify_failed, initv, mm_some, sched_some,
                   init_procs, fb_some, vbe_some, dev_failed, panv, loopv>>

\* The distance of two tick values, whichever is the larger.
abs_diff(a, b) == IF a >= b THEN a - b ELSE b - a

\* u64::saturating_sub
saturating_sub(a, b) == IF a >= b THEN a - b ELSE 0

\* One iteration of the final loop: read SYSTEM_TIME.ticks(); if it is at
\* least 10 above last_schedule, lock SCHEDULER (a temporary guard) and, if it
\* holds Some, call schedule() and set last_schedule; hlt.  The value read is
\* any tick value up to MaxTick.
ScheduleLoop ==
    /\ MainRuns
    /\ pc = "loop"
    /\ \E ticks \in 0..MaxTick :
          /\ current_ticks' = ticks
          /\ IF saturating_sub(ticks, last_schedule) >= SCHEDULE_INTERVAL
             THEN /\ LockFree(SCHEDULER)
                  /\ IF sched_some
                     THEN /\ sched_ticks' = Append(sched_ticks, ticks)
                          /\ last_schedule' = ticks
                     ELSE UNCHANGED <<sched_ticks, last_schedule>>
             ELSE UNCHANGED <<sched_ticks, last_schedule>>
    /\ UNCHANGED <<pc, pp, drv, regs, held, cpu, irqv, verify_failed, initv, glob, panv>>

(***************************************************************************)
(* An interrupt handler that emits a Process::Schedule proof and submits   *)
(* it to the registry (specification 5, caller (c)).  The proof's op_id,   *)
(* prev_state and signature are whatever the producer computed.            *)
(***************************************************************************)
ScheduleProof(op_id, prev_state, forged) ==
    [op_id |-> op_id, subsystem |-> "Process", kind |-> "Schedule",
     prev_state |-> prev_state, new_state |-> ProcessHash(op_id),
     signature |-> IF forged
                   THEN ForgedSignature("Process", op_id, "Schedule", prev_state, ProcessHash(op_id))
                   ELSE Signature("Process", op_id, "Schedule", prev_state, ProcessHash(op_id))]

IrqEnter ==
    /\ if_flag
    /\ irq_pc = "idle"
    /\ irq_count < MaxIrq
    /\ \E op_id \in 1..MaxOpId, prev_state \in {latest_state(vr, "Process"), "stale"},
          forged \in BOOLEAN :
          BeginRegister("irq", ScheduleProof(op_id, prev_state, forged))
    /\ if_flag' = FALSE
    /\ irq_pc' = "submit"
    /\ irq_count' = irq_count + 1
    /\ UNCHANGED <<pc, pp, drv, held, vr_saved_if, verify_failed, initv, glob, panv, loopv>>

IrqReturn ==
    /\ irq_pc = "submit"
    /\ rphase["irq"] = "done"
    /\ rphase' = [rphase EXCEPT !["irq"] = "idle"]
    /\ irq_pc' = "idle"
    /\ if_flag' = TRUE
    /\ UNCHANGED <<pc, pp, drv, vr, rproof, rresult, ooo_rejected, io_failed, held, vr_saved_if,
                   irq_count, verify_failed, initv, glob, panv, loopv>>

(***************************************************************************)
(* The panic handler.  It runs in the context that panicked; nothing is    *)
(* unwound, so the guards of kernel_main stay held.                        *)
(***************************************************************************)
Min(a, b) == IF a < b THEN a ELSE b

\* serial_println!(.., BOOT_VERIFICATION.lock().current_stage): the guard is a
\* temporary of the statement.
PanicPrintStage ==
    /\ HandlerRuns
    /\ pp = "print_stage"
    /\ LockFree(BOOT_VERIFICATION)
    /\ pp' = "lock_verifier"
    /\ UNCHANGED <<pc, drv, regs, held, cpu, irqv, verify_failed, initv, glob, panv, loopv>>

\* let verifier = BOOT_VERIFICATION.lock(); errors, error_count are read under it.
PanicLockVerifier ==
    /\ HandlerRuns
    /\ pp = "lock_verifier"
    /\ LockFree(BOOT_VERIFICATION)
    /\ Acquire("main", BOOT_VERIFICATION)
    /\ pp' = "dump"
    /\ UNCHANGED <<pc, drv, regs, cpu, irqv, verify_failed, initv, glob, panv, loopv>>

\* The loop without the bound: for i in 0..error_count.
DumpSlotsUnbounded == 0..(error_count - 1)

\* for i in 0..error_count.min(32): the indices i for which errors[i] is read.
DumpSlots == 0..(Min(error_count, MAX_BOOT_ERRORS) - 1)

\* The slots the dump loop prints: i in 0..error_count.min(32), errors[i] is Some.
DumpedErrors == SubSeq(errors, 1, Min(Min(error_count, MAX_BOOT_ERRORS), Len(errors)))

PanicDump ==
    /\ HandlerRuns
    /\ pp = "dump"
    /\ dumped' = IF error_count > 0 THEN DumpedErrors ELSE <<>>
    /\ slots_read' = IF error_count > 0 THEN DumpSlots ELSE {}
    /\ pp' = "cleanup"
    /\ UNCHANGED <<pc, drv, regs, held, cpu, irqv, verify_failed, initv, glob, cleaned, loopv>>

\* fs::cleanup(); loop {}
PanicCleanup ==
    /\ HandlerRuns
    /\ pp = "cleanup"
    /\ cleaned' = TRUE
    /\ pp' = "halt"
    /\ UNCHANGED <<pc, drv, regs, held, cpu, irqv, verify_failed, initv, glob, dumped, slots_read, loopv>>

(***************************************************************************)
(* The system.                                                             *)
(***************************************************************************)
KernelNext ==
    \/ ShowSplash
    \/ LockBootVerification
    \/ GdtInit
    \/ MemoryManagerNew
    \/ InitHeap
    \/ StoreMemoryManager
    \/ VerifyGDTLoaded
    \/ RegisterGDTProof
    \/ HashInit
    \/ InitIdt
    \/ VerifyIDTLoaded
    \/ VerifyMemoryInitialized
    \/ RegisterMemoryProof
    \/ VerifyHeapInitialized
    \/ InitScheduler
    \/ InitSyscallsAndTime
    \/ FsInit
    \/ LockProofStorage
    \/ DropProofStorage
    \/ LockSchedulerAndManager
    \/ CreateInitProcess
    \/ ReleaseInitLocks
    \/ LockMemoryManager
    \/ InitFramebuffer
    \/ DropMemoryManager
    \/ InitGraphicsHal
    \/ InitVbe
    \/ VerifyComplete
    \/ StartShell
    \/ ShellExit
    \/ \E c \in Ctx : RegLock(c)
    \/ \E c \in Ctx : RegCheck(c)
    \/ \E c \in Ctx : RegAppend(c)
    \/ \E c \in Ctx : RegUnlock(c)
    \/ PanicPrintStage
    \/ PanicLockVerifier
    \/ PanicDump
    \/ PanicCleanup

\* The boot with interrupts, up to the entry of the final loop.
Next ==
    \/ KernelNext
    \/ IrqEnter
    \/ IrqReturn

Spec == Init /\ [][Next]_vars

(***************************************************************************)
(* kernel_main alone, from entry through its final loop, with no other     *)
(* producer of proofs.                                                     *)
(***************************************************************************)
LoopNext ==
    \/ KernelNext
    \/ ScheduleLoop

LoopSpec == Init /\ [][LoopNext]_vars

(***************************************************************************)
(* The panic handler on its own, entered with BOOT_VERIFICATION free and   *)
(* the driver's error ring in any state: error_count up to MaxErrorCount   *)
(* (above the 32 slots of the ring), and up to min(error_count, 32) slots  *)
(* holding Some(message), the rest None.                                   *)
(***************************************************************************)
PanicInit ==
    /\ pc = "panic"
    /\ pp = "print_stage"
    /\ error_count \in 0..MaxErrorCount
    /\ \E n \in 0..Min(error_count, MAX_BOOT_ERRORS) : errors = [i \in 1..n |-> "boot error"]
    /\ StaticInit

PanicNext ==
    \/ PanicPrintStage
    \/ PanicLockVerifier
    \/ PanicDump
    \/ PanicCleanup

PanicSpec == PanicInit /\ [][PanicNext]_vars

(***************************************************************************)
(* Properties.                                                             *)
(***************************************************************************)
AfterComplete == pc \in {"shell_start", "shell_run", "loop"}

\* A boot in which nothing has failed so far and no other producer has
\* submitted a proof: no panic, no verification error, no device failure, no
\* failed storage append, no interrupt.
CleanBoot ==
    /\ pp = "none"
    /\ verify_failed = "none"
    /\ dev_failed = {}
    /\ ~io_failed
    /\ irq_count = 0

\* C1: in a boot where no step fails the driver advances through Start,
\* GDTLoaded, IDTLoaded, MemoryInitialized, HeapInitialized, SchedulerReady,
\* FilesystemReady, Complete in that order without skipping a stage, and each of
\* the 7 transitions emits one Boot proof.
C1_StagesInOrder ==
    CleanBoot =>
        /\ \A i \in 1..Len(emitted) : emitted[i].kind = StageOrder[i + 1]
        /\ emitted # <<>> => cur_stage = StageOrder[Len(emitted) + 1]
        /\ cur_stage = "Complete" => Len(emitted) = 7

\* C2: every Boot proof the driver produces in a clean boot is submitted with
\* register_proof: once Complete is verified the registry holds 7 Boot proofs
\* and next_op_id is 8.
C2_AllBootProofsRegistered ==
    (CleanBoot /\ AfterComplete) =>
        /\ \A i \in 1..Len(emitted) : emitted[i] \in Range(vr.index)
        /\ Len(BootProofsIn(vr)) = 7
        /\ vr.next_op_id = 8

\* C3: the panic handler never waits on a lock that will not be released:
\* whenever it is about to take BOOT_VERIFICATION, the lock is free (its holder
\* would be the panicked kernel_main, which never runs again).
C3_PanicHandlerNeverBlocked ==
    pp \in {"print_stage", "lock_verifier"} => LockFree(BOOT_VERIFICATION)

\* C4: no register_proof error is swallowed: once a register_proof call of
\* kernel_main has returned an error and control has left the call, the kernel
\* has panicked.
C4_RegisterErrorAborts ==
    (rphase["main"] = "idle" /\ rresult["main"] \notin {"none", "Ok"}) => pp # "none"

\* C5: when verify_stage_vmk returns Err, kernel_main panics in the same step,
\* and from then on no stage is verified, no Boot proof is emitted or
\* registered, kernel_main makes no register_proof call, and neither the shell
\* nor the final loop is started.
C5_VerifyFailureAborts ==
    [][/\ verify_failed' # "none" =>
            /\ pc' = "panic"
            /\ pp' # "none"
            /\ shell' = "none"
       /\ verify_failed # "none" =>
            /\ verify_failed' = verify_failed
            /\ emitted' = emitted
            /\ cur_stage' = cur_stage
            /\ stage_timestamps' = stage_timestamps
            /\ BootProofsIn(vr') = BootProofsIn(vr)
            /\ rphase'["main"] = rphase["main"]]_vars

C5_Witness ==
    /\ verify_failed = "Complete"
    /\ pc = "panic"
    /\ Len(emitted) = 4
    /\ irq_count > 0

\* C6: a failed optional device initialisation (framebuffer, graphics HAL, VBE)
\* emits no proof, registers nothing, leaves the driver's stage, chain tip and
\* error ring alone, does not panic, and kernel_main goes on to the next step,
\* on the way to the verification of Complete.
C6_DeviceFailureOnlyLogged ==
    [][/\ dev_failed' # dev_failed =>
            /\ emitted' = emitted
            /\ vr' = vr
            /\ rphase' = rphase
            /\ cur_stage' = cur_stage
            /\ tip' = tip
            /\ errors' = errors
            /\ pp' = "none"
       /\ (pc = "fb_new" /\ pc' # pc) => pc' = "fb_drop"
       /\ (pc = "init_hal" /\ pc' # pc) => pc' = "init_vbe"
       /\ (pc = "init_vbe" /\ pc' # pc) => pc' = "verify_complete"]_vars

C6_Witness ==
    /\ dev_failed = {"framebuffer", "graphics_hal", "vbe"}
    /\ cur_stage = "Complete"
    /\ pc = "shell_start"

\* C7: whoever holds the registry mutex runs with interrupts masked; no
\* interrupt handler runs while kernel_main is inside register_proof, and a
\* handler about to take the registry lock always finds it free.
C7_RegistryLockMasksInterrupts ==
    /\ \A c \in Ctx : Holds(c, VERIFICATION_REGISTRY) => ~if_flag
    /\ Holds("main", VERIFICATION_REGISTRY) => irq_pc = "idle"
    /\ rphase["irq"] = "call" => LockFree(VERIFICATION_REGISTRY)

C7_Witness ==
    /\ pc = "reg_mem"
    /\ Holds("main", VERIFICATION_REGISTRY)
    /\ vr_saved_if
    /\ irq_count > 0

\* C8: the op_ids of the registered proofs are dense from 1 and strictly
\* increasing in registration order, whoever submitted them: the index only
\* grows at its end, by a proof whose op_id is the next one.
C8_OpIdsDenseInOrder ==
    [][/\ vr'.next_op_id = Len(vr'.index) + 1
       /\ \A i \in 1..Len(vr'.index) : vr'.index[i].op_id = i
       /\ vr'.index # vr.index =>
             \E c \in Ctx : /\ vr'.index = Append(vr.index, rproof[c])
                            /\ rproof[c].op_id = vr.next_op_id]_vars

C8_Witness ==
    /\ Len(vr.index) >= 3
    /\ \E i, j \in 1..Len(vr.index) :
          /\ i < j
          /\ vr.index[i].subsystem = "Process"
          /\ vr.index[j].subsystem = "Process"
    /\ vr.index[1].subsystem = "Boot"
    /\ ooo_rejected # {}

\* C9: no execution context holds PROOF_STORAGE at the time it acquires
\* VERIFICATION_REGISTRY: in every context's acquisition order the registry
\* lock never comes after the storage lock.
C9_StorageAfterRegistry ==
    \A c \in Ctx : \A i, j \in 1..Len(held[c]) :
        i < j => ~(held[c][i] = PROOF_STORAGE /\ held[c][j] = VERIFICATION_REGISTRY)

C9_Witness ==
    /\ pc = "ps_drop"
    /\ Holds("main", PROOF_STORAGE)
    /\ \E i \in 1..Len(vr.index) : vr.index[i].subsystem = "Boot"

\* C10: a register_proof call that returns an error (InvalidSignature,
\* OutOfOrder, StateMismatch, StorageFailed) leaves the registry as it was; a
\* call that returns Ok links exactly the submitted proof; and a proof that
\* meets the preconditions is accepted unless the storage append fails,
\* whatever was rejected before.
C10_RejectionLeavesRegistry ==
    [][\A c \in Ctx :
          rresult'[c] # rresult[c] =>
             /\ rresult'[c] \notin {"none", "Ok"} => vr' = vr
             /\ rresult'[c] = "Ok" => vr' = Commit(vr, rproof[c])
             /\ rresult'[c] = "none" => vr' = vr
             /\ (rphase[c] \in {"locked", "append"} /\ Validate(vr, rproof[c]) = "Ok"
                   /\ rresult'[c] # "StorageFailed") => rresult'[c] = "Ok"]_vars

\* An op_id that was rejected OutOfOrder was accepted later, in its turn, after
\* a storage failure and a state mismatch had been returned as well.
C10_Witness ==
    /\ \E i \in 1..Len(vr.index) : vr.index[i].op_id \in ooo_rejected
    /\ rresult["main"] \in {"StorageFailed", "StateMismatch"}

\* C11: in every state, for every proof the registry holds (so also after any
\* number of later accepted proofs), inclusion_proof(op_id) is found and
\* verifies the proof's signature against the current Merkle root, also when
\* some level of the tree has an odd number of nodes.
C11_InclusionVerifies ==
    \A i \in 1..Len(vr.index) :
        /\ inclusion_proof(vr, vr.index[i].op_id).found
        /\ verify(vr.index[i].signature, inclusion_proof(vr, vr.index[i].op_id).path,
                  MerkleRoot(vr))

\* Three leaves: the third is unpaired at the leaf level and promoted, so its
\* path has one entry while the paths of the first two have two.
C11_Witness ==
    /\ Len(vr.index) = 3
    /\ Len(inclusion_proof(vr, 3).path) = 1
    /\ Len(inclusion_proof(vr, 1).path) = 2
    /\ MerkleRoot(vr) = Combine(Combine(Leaves(vr)[1], Leaves(vr)[2]), Leaves(vr)[3])

\* C12: whichever stage's verification failed, by the time kernel_main has
\* panicked the failure is in the driver's error ring (log_error was called),
\* so that the ring the panic handler dumps has an entry for it.
C12_FailureLoggedBeforePanic ==
    verify_failed # "none" =>
        /\ error_count > 0
        /\ errors # <<>>

\* C13: whatever error_count is (also above 32), the panic handler reads only
\* ring slots 0..31 and prints at most 32 entries, all of them from the ring;
\* with error_count 0 it prints no entry; fs::cleanup is called only once the
\* dump is over, and the handler halts only after fs::cleanup.
C13_DumpBounded ==
    /\ slots_read \subseteq 0..(MAX_BOOT_ERRORS - 1)
    /\ Len(dumped) <= MAX_BOOT_ERRORS
    /\ Len(dumped) <= Len(errors)
    /\ error_count = 0 => (dumped = <<>> /\ slots_read = {})
    /\ pp \in {"print_stage", "lock_verifier", "dump"} =>
          (~cleaned /\ dumped = <<>> /\ slots_read = {})
    /\ pp \in {"cleanup", "halt"} =>
          /\ Cardinality(slots_read) = Min(error_count, MAX_BOOT_ERRORS)
          /\ dumped = SubSeq(errors, 1, Min(Len(errors), Cardinality(slots_read)))
    /\ cleaned <=> pp = "halt"

\* A ring that has overflowed: error_count is above 32, all 32 slots are read
\* and printed, and the handler has called fs::cleanup and halted.
C13_Witness ==
    /\ error_count > MAX_BOOT_ERRORS
    /\ slots_read = 0..(MAX_BOOT_ERRORS - 1)
    /\ Len(dumped) = MAX_BOOT_ERRORS
    /\ cleaned
    /\ pp = "halt"

\* C14: in a clean boot every register_proof call of kernel_main meets the
\* registry's preconditions when it is made: the proof's op_id is the
\* registry's next_op_id, and its prev_state is the new_state of the last Boot
\* proof the registry holds.
C14_RegisterCallsMeetPreconditions ==
    (CleanBoot /\ rphase["main"] \in {"call", "locked"}) =>
        /\ rproof["main"].op_id = vr.next_op_id
        /\ vr.chains["Boot"].count > 0 =>
              rproof["main"].prev_state = latest_state(vr, "Boot")

\* C15: a stage is verified (successfully or not) only after the
\* initialisation it attests: GDTLoaded after gdt::init, IDTLoaded after
\* interrupts::init_idt, MemoryInitialized after the MemoryManager was stored
\* in MEMORY_MANAGER, HeapInitialized after init_heap returned Ok; and when
\* init_heap fails kernel_main has panicked with no stage verified and no proof
\* emitted, submitted or registered.
C15_VerifiedAfterInitialised ==
    /\ (stage_timestamps["GDTLoaded"] \/ verify_failed = "GDTLoaded") => gdt_loaded
    /\ (stage_timestamps["IDTLoaded"] \/ verify_failed = "IDTLoaded") => idt_loaded
    /\ (stage_timestamps["MemoryInitialized"] \/ verify_failed = "MemoryInitialized") => mm_some
    /\ (stage_timestamps["HeapInitialized"] \/ verify_failed = "HeapInitialized") =>
          heap_init = "ok"
    /\ mm_some => heap_init = "ok"
    /\ heap_init = "failed" =>
          /\ pc = "panic"
          /\ pp # "none"
          /\ \A s \in BootStage \ {"Start"} : ~stage_timestamps[s]
          /\ verify_failed = "none"
          /\ emitted = <<>>
          /\ rphase["main"] = "idle"
          /\ vr = EmptyRegistry

C15_Witness ==
    /\ stage_timestamps["GDTLoaded"]
    /\ stage_timestamps["IDTLoaded"]
    /\ stage_timestamps["MemoryInitialized"]
    /\ stage_timestamps["HeapInitialized"]
    /\ gdt_loaded
    /\ idt_loaded
    /\ mm_some
    /\ heap_init = "ok"

\* C16: kernel_main reaches the verification of Complete only with SCHEDULER
\* and MEMORY_MANAGER holding Some and the init process added exactly once; a
\* None in either global or a failed Process::new ends in a panic and never in
\* the verification of Complete; and the guards taken for the process creation
\* (SCHEDULER, then MEMORY_MANAGER) are both released before kernel_main locks
\* MEMORY_MANAGER again.
C16_InitProcessBeforeComplete ==
    [][/\ (pc' = "verify_complete" \/ stage_timestamps'["Complete"]
              \/ verify_failed' = "Complete") =>
            (sched_some' /\ mm_some' /\ init_procs' = 1)
       /\ init_procs' # init_procs =>
            (pc = "proc_new" /\ init_procs = 0 /\ init_procs' = 1 /\ pc' = "proc_done"
               /\ held["main"] = <<BOOT_VERIFICATION, SCHEDULER, MEMORY_MANAGER>>)
       /\ (pc = "init_proc" /\ pc' # pc) =>
            IF sched_some /\ mm_some THEN pc' = "proc_new" ELSE pc' = "panic"
       /\ (pc = "proc_new" /\ pc' # pc) =>
            (pc' = "panic" \/ init_procs' = init_procs + 1)
       /\ pc = "panic" => pc' = "panic"
       /\ pc' = "init_fb" => (LockFree(SCHEDULER)' /\ LockFree(MEMORY_MANAGER)')
       /\ (pc = "init_fb" /\ pc' # pc) =>
            (LockFree(SCHEDULER) /\ LockFree(MEMORY_MANAGER)
               /\ held'["main"] = <<BOOT_VERIFICATION, MEMORY_MANAGER>>)]_vars

C16_Witness ==
    /\ pc = "verify_complete"
    /\ sched_some
    /\ mm_some
    /\ init_procs = 1
    /\ held["main"] = <<BOOT_VERIFICATION>>
    /\ irq_count > 0

\* C17: the shell is started only after Complete was verified successfully;
\* the final loop is entered only after the shell failed to start or returned
\* from run; and kernel_main calls scheduler.schedule() nowhere before the
\* final loop.
C17_ShellThenLoop ==
    /\ shell # "none" =>
          /\ stage_timestamps["Complete"]
          /\ cur_stage = "Complete"
          /\ verify_failed = "none"
    /\ shell = "running" => pc = "shell_run"
    /\ pc = "loop" => shell \in {"failed", "exited"}
    /\ sched_ticks # <<>> => (pc = "loop" /\ shell \in {"failed", "exited"})

C17_Witness ==
    /\ pc = "loop"
    /\ shell = "exited"
    /\ stage_timestamps["Complete"]
    /\ Len(sched_ticks) = 1

\* C18: in the final loop schedule() is called only with the scheduler
\* initialised and a tick value at least 10 above last_schedule; last_schedule
\* changes only with a call, to the tick value read in that iteration; so
\* consecutive calls are at least 10 ticks apart, the first is at tick 10 or
\* later, and a tick value below last_schedule triggers no call.
C18_ScheduleEveryTenTicks ==
    [][/\ sched_ticks' # sched_ticks =>
            /\ pc = "loop"
            /\ sched_some
            /\ current_ticks' >= last_schedule + SCHEDULE_INTERVAL
            /\ sched_ticks' = Append(sched_ticks, current_ticks')
            /\ last_schedule' = current_ticks'
       /\ last_schedule' # last_schedule => sched_ticks' # sched_ticks
       /\ current_ticks' < last_schedule => sched_ticks' = sched_ticks
       /\ \A i \in 1..(Len(sched_ticks') - 1) :
             sched_ticks'[i + 1] - sched_ticks'[i] >= SCHEDULE_INTERVAL
       /\ sched_ticks' # <<>> => sched_ticks'[1] >= SCHEDULE_INTERVAL]_vars

\* Two calls, ten ticks apart, and then a tick value below last_schedule that
\* triggered nothing.
C18_Witness ==
    /\ sched_ticks = <<10, 20>>
    /\ last_schedule = 20
    /\ current_ticks < last_schedule
====
